---- MODULE Spec2Model ----
(***************************************************************************)
(* A model of composer/algorithms/factorize/factorize_core.py:             *)
(* factorize_matrix, factorize_conv2d and their helpers.                   *)
(*                                                                         *)
(* A tensor is a record [shape, val, buf]: its shape, its contents and the *)
(* storage it reads and writes.  Contents are exact integers laid out in   *)
(* row-major order wherever the code only adds, subtracts, multiplies or   *)
(* re-indexes; the results of the library's numeric solvers (lstsq, svd,   *)
(* sqrt, mean, var) are terms over their exact arguments.                  *)
(***************************************************************************)
EXTENDS Integers, Sequences, FiniteSets, TLC

VARIABLES pc, entry, args, margs, fm, fc, ret, err, trace, callerMem

vars == <<pc, entry, args, margs, fm, fc, ret, err, trace, callerMem>>

(* ---------------------------- bounds ----------------------------------- *)
MaxN == 2
MaxDim == 3
MaxIters == 1
MaxChan == 2
MaxKernel == 2

(* ------------------------- program constants --------------------------- *)
Sentinel == -1

(* ------------------------------ values --------------------------------- *)
Const(d) == [op |-> "const", data |-> d, args |-> <<>>]
Term(o, d, a) == [op |-> o, data |-> d, args |-> a]
NoVal == Term("none", <<>>, <<>>)
IsConst(v) == v.op = "const"

Tensor(s, v, b) == [shape |-> s, val |-> v, buf |-> b]
None == Tensor(<<>>, NoVal, "none")
IsNone(t) == t.buf = "none"

Min(a, b) == IF a <= b THEN a ELSE b
Max(a, b) == IF a >= b THEN a ELSE b

RECURSIVE Prod(_)
Prod(s) == IF Len(s) = 0 THEN 1 ELSE Head(s) * Prod(Tail(s))

RECURSIVE SeqMax(_)
SeqMax(s) == IF Len(s) = 1 THEN s[1] ELSE Max(Head(s), SeqMax(Tail(s)))

RECURSIVE SumTo(_, _)
SumTo(f, n) == IF n = 0 THEN 0 ELSE f[n] + SumTo(f, n - 1)

Numel(t) == Prod(t.shape)

(* x.detach(): a tensor sharing the storage of x *)
Detach(t) == t

(* x.T of a 2-D tensor: a view of the same storage *)
Transpose(t) ==
    LET r == t.shape[1]
        c == t.shape[2]
    IN  Tensor(<<c, r>>,
               IF IsConst(t.val)
               THEN Const([i \in 1..(r * c) |->
                        t.val.data[((i - 1) % r) * c + ((i - 1) \div r) + 1]])
               ELSE Term("T", <<>>, <<t.val>>),
               t.buf)

(* x.reshape(shape): same row-major contents under a new shape (a view) *)
Reshape(t, s) == Tensor(s, t.val, t.buf)

(* A @ B for 2-D tensors, allocated in a new buffer *)
MatMul(A, B, buf) ==
    LET n == A.shape[1]
        m == A.shape[2]
        p == B.shape[2]
    IN  Tensor(<<n, p>>,
               IF IsConst(A.val) /\ IsConst(B.val)
               THEN Const([i \in 1..(n * p) |->
                        LET r == (i - 1) \div p
                            c == (i - 1) % p
                        IN  SumTo([j \in 1..m |->
                                    A.val.data[r * m + j] * B.val.data[(j - 1) * p + c + 1]], m)])
               ELSE Term("matmul", <<>>, <<A.val, B.val>>),
               buf)

(* broadcasting of two shapes, aligned at the last axis; <<-1>> if they do not broadcast *)
RECURSIVE BroadcastShape(_, _)
BroadcastShape(s, t) ==
    IF Len(s) = 0 THEN t
    ELSE IF Len(t) = 0 THEN s
    ELSE LET a == s[Len(s)]
             b == t[Len(t)]
             rest == BroadcastShape(SubSeq(s, 1, Len(s) - 1), SubSeq(t, 1, Len(t) - 1))
         IN  IF rest = <<-1>> \/ (a # b /\ a # 1 /\ b # 1)
             THEN <<-1>>
             ELSE Append(rest, Max(a, b))

Broadcasts(s, t) == BroadcastShape(s, t) # <<-1>>

(* contents of Y (op) b for a matrix Y [n, m] and a vector b [m], op in {"add", "sub"} *)
RowwiseVal(Y, b, o) ==
    IF IsConst(Y.val) /\ IsConst(b.val) /\ Len(Y.shape) = 2 /\ b.shape = <<Y.shape[2]>>
    THEN LET m == Y.shape[2]
         IN  Const([i \in 1..Numel(Y) |->
                 IF o = "sub" THEN Y.val.data[i] - b.val.data[((i - 1) % m) + 1]
                              ELSE Y.val.data[i] + b.val.data[((i - 1) % m) + 1]])
    ELSE Term(o, <<>>, <<Y.val, b.val>>)

(* Y - b: a new tensor *)
Sub(Y, b, buf) == Tensor(BroadcastShape(Y.shape, b.shape), RowwiseVal(Y, b, "sub"), buf)

(* the value left in the storage of y by y += b *)
AddInPlace(y, b) == Tensor(y.shape, RowwiseVal(y, b, "add"), y.buf)

(* the storage of the caller after an in-place write through tensor t *)
Written(mem, t) == IF t.buf \in DOMAIN mem THEN [mem EXCEPT ![t.buf] = t.val] ELSE mem

(* Python's x[:k] on an axis of length n keeps this many entries *)
SliceLen(k, n) == IF k >= 0 THEN Min(k, n) ELSE Max(n + k, 0)

(* ------------------------------ _lstsq --------------------------------- *)
(* torch.linalg.lstsq(A, B).solution is the minimiser of |A S - B|, which   *)
(* is a function of the normal equations (A^T A) S = A^T B: two solutions   *)
(* for the same A are equal exactly when A^T B is.                          *)
LstsqSolution(A, B, buf) ==
    Tensor(<<A.shape[2], B.shape[2]>>,
           Term("lstsq", <<>>, <<MatMul(Transpose(A), A, buf).val,
                                  MatMul(Transpose(A), B, buf).val>>),
           buf)

LstsqError(A, B) ==
    IF A.shape[1] # B.shape[1] THEN "IndexError"
    ELSE IF Len(A.shape) # 2 THEN "IndexError"
    ELSE IF Len(B.shape) # 2 THEN "IndexError"
    ELSE ""

(* the outcomes of _lstsq(A, B): an error, or the solution; what the        *)
(* library does with an operand without elements is not fixed by the code  *)
Lstsq(A, B, buf) ==
    IF LstsqError(A, B) # ""
    THEN {[err |-> LstsqError(A, B), t |-> None]}
    ELSE {[err |-> "", t |-> LstsqSolution(A, B, buf)]}
         \cup (IF Numel(A) = 0 \/ Numel(B) = 0
               THEN {[err |-> "RuntimeError", t |-> None]} ELSE {})


(* --------------------------- _svd_initialize --------------------------- *)
(* W of _svd_initialize: Wa itself, or the product Wa @ Wb in a new buffer *)
SvdOperand(Wa, Wb) == IF IsNone(Wb) THEN Wa ELSE MatMul(Wa, Wb, "W")

(* the decomposition computed into the storage of W *)
SvdUInPlace(W) == Tensor(<<W.shape[1], Min(W.shape[1], W.shape[2])>>,
                         Term("svd_U", <<>>, <<W.val>>), W.buf)

(* U of torch.linalg.svd(W, full_matrices=False): a new tensor [D, min(D, C)] *)
SvdU(W) == Tensor(<<W.shape[1], Min(W.shape[1], W.shape[2])>>,
                  Term("svd_U", <<>>, <<W.val>>), "svd_U")

(* Vt of torch.linalg.svd(W, full_matrices=False): a new tensor [min(D, C), C] *)
SvdVt(W) == Tensor(<<Min(W.shape[1], W.shape[2]), W.shape[2]>>,
                   Term("svd_Vt", <<>>, <<W.val>>), "svd_Vt")

(* sqrt(s[:k]) *)
SqrtS(W, k) == Term("sqrt", <<SliceLen(k, Min(W.shape[1], W.shape[2]))>>,
                    <<Term("svd_s", <<>>, <<W.val>>)>>)

(* Wa = U[:, :k]; Wa *= s_sqrt : a view of U, scaled in place *)
SvdWa(Wa, Wb, k) ==
    LET W == SvdOperand(Wa, Wb)
        U == SvdU(W)
        n == SliceLen(k, U.shape[2])
    IN  Tensor(<<U.shape[1], n>>,
               Term("mul", <<>>, <<Term("cols", <<n>>, <<U.val>>), SqrtS(W, k)>>),
               U.buf)

(* Wb = Vt[:k]; Wb *= s_sqrt.reshape(-1, 1) : a view of Vt, scaled in place *)
SvdWb(Wa, Wb, k) ==
    LET W == SvdOperand(Wa, Wb)
        Vt == SvdVt(W)
        n == SliceLen(k, Vt.shape[1])
    IN  Tensor(<<n, Vt.shape[2]>>,
               Term("mul", <<>>, <<Term("rows", <<n>>, <<Vt.val>>), SqrtS(W, k)>>),
               Vt.buf)

(* ------------------------------- rank ---------------------------------- *)
(* A rank argument is the exact fraction num/den: an integer when den = 1,  *)
(* a binary fraction otherwise (so the floating-point product with an      *)
(* integer is exact).                                                      *)
RankLt1(r) == r[1] < r[2]

(* int(x) of Python truncates toward zero *)
TruncDiv(a, b) == IF a >= 0 THEN a \div b ELSE -((-a) \div b)

(* min(int(rank * X.shape[1]), Wa.shape[1]) *)
FractionRank(r, D, cols) == Min(TruncDiv(r[1] * D, r[2]), cols)

ResolveRank(r, D, cols) == IF RankLt1(r) THEN FractionRank(r, D, cols) ELSE r[1]

(* --------------------------- LowRankSolution --------------------------- *)
LowRankSolution == [Wa |-> None, Wb |-> None, bias |-> None, rank |-> Sentinel,
                    nmse |-> Const(<<0>>)]

(* ------------------------------ inputs --------------------------------- *)
Fill(n, off) == [i \in 1..n |-> (i + off) % 3]
BiasFill(n) == [i \in 1..n |-> 1 + (i % 2)]

RankVals == {<<-1, 2>>, <<0, 1>>, <<1, 4>>, <<1, 2>>, <<3, 4>>}
              \cup {<<n, 1>> : n \in 1..MaxDim}

ShapeKinds == {"ok", "rows", "X1d", "X3d", "Y1d", "Y3d"}

XShape(kind, N, D) == IF kind = "X1d" THEN <<N>>
                      ELSE IF kind = "X3d" THEN <<N, D, 1>> ELSE <<N, D>>
YShape(kind, N, M) == IF kind = "rows" THEN <<N + 1, M>>
                      ELSE IF kind = "Y1d" THEN <<N>>
                      ELSE IF kind = "Y3d" THEN <<N, M, 1>> ELSE <<N, M>>

Input(shape, off, buf) == Tensor(shape, Const(Fill(Prod(shape), off)), buf)

(* the arguments of a call factorize_matrix(X, Y, Wa, Wb, bias, rank, n_iters);   *)
(* d = 0 stands for Wb = None, d > 0 for a factorized operator of rank d          *)
MatrixArgs(kind, N, D, M, d, hasBias, rank, n) ==
    [X |-> Input(XShape(kind, N, D), 0, "X"),
     Y |-> Input(YShape(kind, N, M), 1, "Y"),
     Wa |-> Input(<<D, IF d = 0 THEN M ELSE d>>, 2, "Wa"),
     Wb |-> IF d = 0 THEN None ELSE Input(<<d, M>>, 1, "Wb"),
     bias |-> IF hasBias THEN Tensor(<<M>>, Const(BiasFill(M)), "bias") ELSE None,
     rank |-> rank,
     n_iters |-> n]

NoMatrixArgs == [X |-> None, Y |-> None, Wa |-> None, Wb |-> None, bias |-> None,
                 rank |-> <<1, 1>>, n_iters |-> 0]

NoConvArgs == [inputs |-> None, Wa |-> None, Wb |-> None, rank |-> <<1, 1>>,
               biasA |-> None, biasB |-> None, n_iters |-> 0,
               padding |-> <<0>>, padding_mode |-> "zeros",
               stride |-> <<1>>, dilation |-> <<1>>, groups |-> 1]

NoLocals == [X |-> None, Y |-> None, Wa |-> None, Wb |-> None, k |-> 0,
             original_bias |-> None, Ya |-> None, it |-> 0, path |-> ""]

NoConvLocals == [kernel_size |-> <<>>, X_mat |-> None, Wa |-> None, Wb |-> None,
                 Y_mat |-> None]

(* the storage of the tensors a caller supplied *)
Supplied(ts) == {t \in ts : ~IsNone(t)}
MemOf(ts) == [b \in {t.buf : t \in Supplied(ts)} |->
                 (CHOOSE t \in Supplied(ts) : t.buf = b).val]

(* an exception leaves the call *)
Raise(e) ==
    /\ err' = e
    /\ pc' = "done"

(* factorize_matrix returns to its caller *)
Return == pc' = IF entry = "conv2d" THEN "fc_reshape" ELSE "done"

(* --------------------------- factorize_matrix -------------------------- *)
(* a caller has invoked factorize_matrix directly *)
InitFactorizeMatrix ==
    /\ \E kind \in ShapeKinds, D \in 1..MaxDim, M \in 1..MaxDim,
          d \in 0..(MaxDim - 1), hasBias \in BOOLEAN, rank \in RankVals,
          n \in 0..MaxIters :
          margs = MatrixArgs(kind, MaxN, D, M, d, hasBias, rank, n)
    /\ callerMem = MemOf({margs.X, margs.Y, margs.Wa, margs.Wb, margs.bias})
    /\ entry = "matrix"
    /\ pc = "fm_rank"
    /\ args = NoConvArgs
    /\ fm = NoLocals
    /\ fc = NoConvLocals
    /\ ret = LowRankSolution
    /\ err = ""
    /\ trace = <<>>

(* lines 136-143: detach the arguments and resolve the rank *)
FM_ResolveRank ==
    /\ pc = "fm_rank"
    /\ IF RankLt1(margs.rank) /\ Len(margs.X.shape) < 2
       THEN /\ Raise("IndexError")
            /\ UNCHANGED fm
       ELSE /\ fm' = [NoLocals EXCEPT
                        !.X = Detach(margs.X),
                        !.Y = Detach(margs.Y),
                        !.Wa = Detach(margs.Wa),
                        !.Wb = IF IsNone(margs.Wb) THEN None ELSE Detach(margs.Wb),
                        !.k = ResolveRank(margs.rank,
                                          IF Len(margs.X.shape) < 2 THEN 0 ELSE margs.X.shape[2],
                                          margs.Wa.shape[2])]
            /\ pc' = "fm_bias"
            /\ UNCHANGED err
    /\ UNCHANGED <<entry, args, margs, fc, ret, trace, callerMem>>

(* the subtraction left out: Y is fitted as it came *)
SubBiasDropped(Y, b) == Y

(* Y - original_bias of line 150 *)
SubBias(Y, b) == Sub(Y, b, "Y_sub")

(* lines 145-151: a new solution record; subtract the bias from Y *)
FM_Bias ==
    /\ pc = "fm_bias"
    /\ IF IsNone(margs.bias)
       THEN /\ ret' = LowRankSolution
            /\ pc' = "fm_caseA"
            /\ UNCHANGED <<fm, err, trace, callerMem>>
       ELSE IF ~Broadcasts(fm.Y.shape, margs.bias.shape)
       THEN /\ ret' = LowRankSolution
            /\ Raise("RuntimeError")
            /\ UNCHANGED <<fm, trace, callerMem>>
       ELSE /\ fm' = [fm EXCEPT !.original_bias = Detach(margs.bias),
                                !.Y = SubBias(fm.Y, Detach(margs.bias))]
            /\ ret' = [LowRankSolution EXCEPT !.bias = Detach(margs.bias)]
            /\ trace' = Append(trace, "sub")
            /\ callerMem' = Written(callerMem, fm'.Y)
            /\ pc' = "fm_caseA"
            /\ UNCHANGED err
    /\ UNCHANGED <<entry, args, margs, fc>>

(* line 156: k >= X.shape[1] or k >= Y.shape[1], "IndexError" when a shape is too short *)
CaseACondition(k, X, Y) ==
    IF Len(X.shape) < 2 THEN "IndexError"
    ELSE IF k >= X.shape[2] THEN "taken"
    ELSE IF Len(Y.shape) < 2 THEN "IndexError"
    ELSE IF k >= Y.shape[2] THEN "taken"
    ELSE "skipped"

(* lines 153-160: the rank is no smaller than the input or the output width *)
FM_CaseA ==
    /\ pc = "fm_caseA"
    /\ LET c == CaseACondition(fm.k, fm.X, fm.Y)
       IN  IF c = "IndexError"
           THEN /\ Raise("IndexError")
                /\ UNCHANGED <<fm, ret, trace>>
           ELSE IF c = "skipped"
           THEN /\ pc' = "fm_caseB"
                /\ UNCHANGED <<fm, ret, err, trace>>
           ELSE \E out \in Lstsq(fm.X, fm.Y, "lstsq_A") :
                  IF out.err # ""
                  THEN /\ Raise(out.err)
                       /\ UNCHANGED <<fm, ret, trace>>
                  ELSE /\ fm' = [fm EXCEPT !.Wa = out.t, !.path = "A"]
                       /\ ret' = [ret EXCEPT !.Wa = out.t, !.rank = Sentinel]
                       /\ trace' = Append(trace, "lstsq")
                       /\ Return
                       /\ UNCHANGED err
    /\ UNCHANGED <<entry, args, margs, fc, callerMem>>

(* the comparison made strict: k > Wa.shape[1] *)
CaseBConditionStrict(k, Wa) == k > Wa.shape[2]

(* line 164: k >= Wa.shape[1] *)
CaseBCondition(k, Wa) == k >= Wa.shape[2]

(* the assignment ret.Wb = Wb left out *)
CaseBSolutionNoWb(r, Wa, Wb) == [r EXCEPT !.Wa = Wa, !.rank = Sentinel]

(* lines 165-167: the solution of degenerate case B carries the input factors *)
CaseBSolution(r, Wa, Wb) == [r EXCEPT !.Wa = Wa, !.Wb = Wb, !.rank = Sentinel]

(* lines 162-168: the rank is no smaller than the current rank *)
FM_CaseB ==
    /\ pc = "fm_caseB"
    /\ IF CaseBCondition(fm.k, fm.Wa)
       THEN /\ ret' = CaseBSolution(ret, fm.Wa, fm.Wb)
            /\ fm' = [fm EXCEPT !.path = "B"]
            /\ Return
       ELSE /\ pc' = "fm_svd"
            /\ UNCHANGED <<fm, ret>>
    /\ UNCHANGED <<entry, args, margs, fc, err, trace, callerMem>>

(* line 170 with lines 61-76: initialise the factors from the SVD *)
FM_SvdInit ==
    /\ pc = "fm_svd"
    /\ fm' = [fm EXCEPT !.Wa = SvdWa(fm.Wa, fm.Wb, fm.k),
                        !.Wb = SvdWb(fm.Wa, fm.Wb, fm.k)]
    /\ trace' = trace \o (IF IsNone(fm.Wb) THEN <<>> ELSE <<"matmul">>)
                      \o <<"svd", "sqrt", "mul_", "mul_">>
    /\ callerMem' = Written(Written(callerMem, fm'.Wa), fm'.Wb)
    /\ pc' = "fm_Ya"
    /\ UNCHANGED <<entry, args, margs, fc, ret, err>>

(* line 172: the unconstrained fit of Y on X *)
FM_Ya ==
    /\ pc = "fm_Ya"
    /\ \E out \in Lstsq(fm.X, fm.Y, "Ya") :
          IF out.err # ""
          THEN /\ Raise(out.err)
               /\ UNCHANGED <<fm, trace>>
          ELSE /\ fm' = [fm EXCEPT !.Ya = out.t]
               /\ trace' = Append(trace, "lstsq")
               /\ pc' = "fm_loop"
               /\ UNCHANGED err
    /\ UNCHANGED <<entry, args, margs, fc, ret, callerMem>>

(* lines 173-195: one sweep of alternating least squares *)
FM_Iter ==
    /\ pc = "fm_loop"
    /\ fm.it < margs.n_iters
    /\ LET Xb == MatMul(fm.X, fm.Wa, "Xb")
       IN  \E outB \in Lstsq(Xb, fm.Y, "Wb_fit") :
             IF outB.err # ""
             THEN /\ Raise(outB.err)
                  /\ trace' = Append(trace, "matmul")
                  /\ UNCHANGED fm
             ELSE \E outA \in Lstsq(Transpose(outB.t), Transpose(fm.Ya), "Wa_fit") :
                    IF outA.err # ""
                    THEN /\ Raise(outA.err)
                         /\ trace' = trace \o <<"matmul", "lstsq">>
                         /\ UNCHANGED fm
                    ELSE /\ fm' = [fm EXCEPT !.Wb = outB.t,
                                             !.Wa = Transpose(outA.t),
                                             !.it = fm.it + 1]
                         /\ trace' = trace \o <<"matmul", "lstsq", "lstsq">>
                         /\ pc' = "fm_loop"
                         /\ UNCHANGED err
    /\ UNCHANGED <<entry, args, margs, fc, ret, callerMem>>

(* (Y - Y_hat).mean(dim=0): a new vector *)
MeanResidual(Y, Y_hat) ==
    Tensor(<<Y.shape[2]>>, Term("mean", <<>>, <<Term("sub", <<>>, <<Y.val, Y_hat.val>>)>>),
           "bias_fit")

(* _nmse(Y, Y_hat) *)
Nmse(Y, Y_hat) == Term("nmse", <<>>, <<Y.val, Y_hat.val>>)

(* lines 197-210: the solution of the iterative path, its bias and its error *)
FM_Finish ==
    /\ pc = "fm_loop"
    /\ fm.it >= margs.n_iters
    /\ LET Y_hat == MatMul(MatMul(fm.X, fm.Wa, "XWa"), fm.Wb, "Y_hat")
           mean == MeanResidual(fm.Y, Y_hat)
           bias == IF IsNone(fm.original_bias) THEN mean
                   ELSE AddInPlace(mean, fm.original_bias)
           Y_hat2 == AddInPlace(Y_hat, bias)
       IN  /\ ret' = [ret EXCEPT !.Wa = fm.Wa, !.Wb = fm.Wb, !.rank = fm.k,
                                 !.bias = bias, !.nmse = Nmse(fm.Y, Y_hat2)]
           /\ callerMem' = Written(Written(callerMem, bias), Y_hat2)
    /\ fm' = [fm EXCEPT !.path = "iter"]
    /\ trace' = trace \o <<"matmul", "matmul", "mean">>
                      \o (IF IsNone(fm.original_bias) THEN <<>> ELSE <<"add_">>)
                      \o <<"add_", "nmse">>
    /\ Return
    /\ UNCHANGED <<entry, args, margs, fc, err>>

(* ----------------------- convolution adapter -------------------------- *)
(* np.max(x) of an int or of a tuple of ints, both held as sequences *)
NpMax(x) == SeqMax(x)

(* lines 220-225: the configurations _activations_conv2d_to_mat rejects *)
StrideRejected(stride) == NpMax(stride) > 1
DilationRejected(dilation) == NpMax(dilation) > 1
GroupsRejected(groups) == groups # 1

Unsupported(a) ==
    StrideRejected(a.stride) \/ DilationRejected(a.dilation) \/ GroupsRejected(a.groups)

(* line 226: np.max(padding) > 0 and padding_mode.lower() != 'zeros' *)
PadsExplicitly(a) == NpMax(a.padding) > 0 /\ a.padding_mode # "zeros"

(* F.pad(activations, pad=(l, r, t, b), mode='replicate') of a 4-D tensor: the  *)
(* last axis grows by l + r, the one before it by t + b, edge values repeated   *)
Pad2d(act, padding, buf) ==
    LET H == act.shape[3]
        W == act.shape[4]
        H2 == H + padding[3] + padding[4]
        W2 == W + padding[1] + padding[2]
    IN  Tensor(<<act.shape[1], act.shape[2], H2, W2>>,
               Const([i \in 1..(act.shape[1] * act.shape[2] * H2 * W2) |->
                   LET plane == (i - 1) \div (H2 * W2)
                       y == (((i - 1) % (H2 * W2)) \div W2) - padding[3]
                       x == ((i - 1) % W2) - padding[1]
                   IN  act.val.data[(plane * H + Max(0, Min(y, H - 1))) * W
                                    + Max(0, Min(x, W - 1)) + 1]]),
               buf)

(* a padding argument of F.unfold as (height, width) *)
PadHW(padding) == IF Len(padding) = 1 THEN <<padding[1], padding[1]>> ELSE padding

(* lines 232-234: F.unfold, transpose(1, 2), reshape(-1, fan_in): one row per    *)
(* batch entry and output position, one column per (channel, kernel row, column) *)
UnfoldToMat(act, ks, padding, buf) ==
    LET B == act.shape[1]
        C == act.shape[2]
        H == act.shape[3]
        W == act.shape[4]
        kh == ks[1]
        kw == ks[2]
        ph == PadHW(padding)[1]
        pw == PadHW(padding)[2]
        OW == W + 2 * pw - kw + 1
        L == (H + 2 * ph - kh + 1) * OW
        F == C * kh * kw
    IN  Tensor(<<B * L, F>>,
               Const([i \in 1..(B * L * F) |->
                   LET row == (i - 1) \div F
                       f == (i - 1) % F
                       b == row \div L
                       c == f \div (kh * kw)
                       y == ((row % L) \div OW) + ((f % (kh * kw)) \div kw) - ph
                       x == ((row % L) % OW) + (f % kw) - pw
                   IN  IF y < 0 \/ y >= H \/ x < 0 \/ x >= W THEN 0
                       ELSE act.val.data[((b * C + c) * H + y) * W + x + 1]]),
               buf)

(* lines 237-238: weights.reshape(weights.shape[0], -1).T *)
WeightsConv2dToMat(w) ==
    Transpose(Reshape(w, <<w.shape[1], Numel(w) \div w.shape[1]>>))

(* the transposition left out: mat reshaped as it is *)
MatToWeightsNoTranspose(mat, ks) ==
    IF IsNone(mat) THEN None
    ELSE Reshape(mat, <<mat.shape[2], Numel(mat) \div (mat.shape[2] * ks[1] * ks[2]), ks[1], ks[2]>>)

(* lines 241-246: mat.T reshaped to [out_channels, -1, kh, kw]; None stays None *)
MatToWeightsConv2d(mat, ks) ==
    IF IsNone(mat) THEN None
    ELSE LET w == Transpose(mat)
         IN  Reshape(w, <<w.shape[1], Numel(w) \div (w.shape[1] * ks[1] * ks[2]), ks[1], ks[2]>>)

(* reshape(n, -1, kh, kw) has no answer for the -1 when n = 0 *)
MatToWeightsFails(mat) == ~IsNone(mat) /\ mat.shape[2] = 0

(* stride, dilation and groups: the supported setting, and settings that differ *)
(* from it in one argument                                                     *)
ConvConfigs == {[stride |-> <<1>>, dilation |-> <<1>>, groups |-> 1],
                [stride |-> <<2>>, dilation |-> <<1>>, groups |-> 1],
                [stride |-> <<1, 2>>, dilation |-> <<1>>, groups |-> 1],
                [stride |-> <<0>>, dilation |-> <<1>>, groups |-> 1],
                [stride |-> <<1>>, dilation |-> <<2>>, groups |-> 1],
                [stride |-> <<1>>, dilation |-> <<0>>, groups |-> 1],
                [stride |-> <<1>>, dilation |-> <<1>>, groups |-> 2]}
PaddingVals == {[padding |-> <<0>>, mode |-> "zeros"],
                [padding |-> <<1, 1>>, mode |-> "zeros"],
                [padding |-> <<1, 1, 1, 1>>, mode |-> "replicate"]}

(* the arguments of a call factorize_conv2d(inputs, Wa, Wb, rank, biasA, biasB,    *)
(* n_iters, **conv2d_kwargs) on one single-channel MaxKernel x MaxKernel image,   *)
(* with a MaxKernel x MaxKernel kernel and O output channels; d = 0 stands for    *)
(* Wb = None                                                                      *)
ConvArgs(O, d, hasA, hasB, rank, n, pad, cfg) ==
    [inputs |-> Input(<<1, 1, MaxKernel, MaxKernel>>, 0, "inputs"),
     Wa |-> Input(<<IF d = 0 THEN O ELSE d, 1, MaxKernel, MaxKernel>>, 2, "Wa"),
     Wb |-> IF d = 0 THEN None ELSE Input(<<O, d, 1, 1>>, 1, "Wb"),
     rank |-> rank,
     biasA |-> IF hasA THEN Tensor(<<IF d = 0 THEN O ELSE d>>,
                                   Const(BiasFill(IF d = 0 THEN O ELSE d)), "biasA")
               ELSE None,
     biasB |-> IF hasB THEN Tensor(<<O>>, Const(BiasFill(O)), "biasB") ELSE None,
     n_iters |-> n,
     padding |-> pad.padding, padding_mode |-> pad.mode,
     stride |-> cfg.stride, dilation |-> cfg.dilation, groups |-> cfg.groups]

(* a caller has invoked factorize_conv2d *)
InitFactorizeConv2d ==
    /\ \E O \in 1..MaxChan, d \in 0..(MaxChan - 1),
          hasA \in BOOLEAN, hasB \in BOOLEAN, rank \in RankVals, n \in 0..MaxIters,
          pad \in PaddingVals, cfg \in ConvConfigs :
          args = ConvArgs(O, d, hasA, hasB, rank, n, pad, cfg)
    /\ callerMem = MemOf({args.inputs, args.Wa, args.Wb, args.biasA, args.biasB})
    /\ entry = "conv2d"
    /\ pc = "fc_unfold"
    /\ margs = NoMatrixArgs
    /\ fm = NoLocals
    /\ fc = NoConvLocals
    /\ ret = LowRankSolution
    /\ err = ""
    /\ trace = <<>>

(* lines 296-300 with 213-234: check the configuration, pad, extract the patches *)
FC_ActivationsToMat ==
    /\ pc = "fc_unfold"
    /\ IF Unsupported(args)
       THEN /\ Raise("NotImplementedError")
            /\ UNCHANGED <<fc, trace>>
       ELSE /\ LET ks == SubSeq(args.Wa.shape, 3, 4)
                   act == IF PadsExplicitly(args)
                          THEN Pad2d(Detach(args.inputs), args.padding, "padded")
                          ELSE Detach(args.inputs)
                   padding == IF PadsExplicitly(args) THEN <<0>> ELSE args.padding
               IN  fc' = [fc EXCEPT !.kernel_size = ks,
                                    !.X_mat = UnfoldToMat(act, ks, padding, "X_mat")]
            /\ trace' = trace \o (IF PadsExplicitly(args) THEN <<"pad">> ELSE <<>>)
                              \o <<"unfold">>
            /\ pc' = "fc_target"
            /\ UNCHANGED err
    /\ UNCHANGED <<entry, args, margs, fm, ret, callerMem>>

(* lines 301-321: the weights as matrices and the target the operator produces *)
FC_Target ==
    /\ pc = "fc_target"
    /\ LET Wa == WeightsConv2dToMat(Detach(args.Wa))
           Y1 == MatMul(fc.X_mat, Wa, "Y_mat")
           Y2 == IF IsNone(args.biasA) THEN Y1 ELSE AddInPlace(Y1, Detach(args.biasA))
           Wb == IF IsNone(args.Wb) THEN None ELSE WeightsConv2dToMat(Detach(args.Wb))
           Y3 == IF IsNone(args.Wb) THEN Y2 ELSE MatMul(Y2, Wb, "Y_mat2")
           Y4 == IF IsNone(args.Wb) \/ IsNone(args.biasB) THEN Y3
                 ELSE AddInPlace(Y3, Detach(args.biasB))
       IN  /\ fc' = [fc EXCEPT !.Wa = Wa, !.Wb = Wb, !.Y_mat = Y4]
           /\ callerMem' = Written(Written(callerMem, Y2), Y4)
           /\ trace' = trace \o <<"matmul">>
                     \o (IF IsNone(args.biasA) THEN <<>> ELSE <<"add_">>)
                     \o (IF IsNone(args.Wb) THEN <<>> ELSE <<"matmul">>)
                     \o (IF IsNone(args.Wb) \/ IsNone(args.biasB) THEN <<>> ELSE <<"add_">>)
           /\ IF IsNone(args.Wb) /\ ~IsNone(args.biasB)
              THEN Raise("RuntimeError")
              ELSE /\ pc' = "fc_call"
                   /\ UNCHANGED err
    /\ UNCHANGED <<entry, args, margs, fm, ret>>

(* line 323: factorize_matrix(X_mat, Y_mat, Wa, Wb, rank=rank, n_iters=n_iters) *)
FC_CallMatrix ==
    /\ pc = "fc_call"
    /\ margs' = [X |-> fc.X_mat, Y |-> fc.Y_mat, Wa |-> fc.Wa, Wb |-> fc.Wb,
                 bias |-> None, rank |-> args.rank, n_iters |-> args.n_iters]
    /\ trace' = Append(trace, "factorize_matrix")
    /\ pc' = "fm_rank"
    /\ UNCHANGED <<entry, args, fm, fc, ret, err, callerMem>>

(* lines 325-335: the solution's matrices as convolution kernels *)
FC_Reshape ==
    /\ pc = "fc_reshape"
    /\ IF MatToWeightsFails(ret.Wa) \/ MatToWeightsFails(ret.Wb)
       THEN /\ Raise("RuntimeError")
            /\ UNCHANGED ret
       ELSE /\ ret' = [ret EXCEPT !.Wa = MatToWeightsConv2d(ret.Wa, fc.kernel_size),
                                  !.Wb = MatToWeightsConv2d(ret.Wb, <<1, 1>>)]
            /\ pc' = "done"
            /\ UNCHANGED err
    /\ UNCHANGED <<entry, args, margs, fm, fc, trace, callerMem>>

(* a call of either function with its arguments, about to run *)
Init == InitFactorizeMatrix \/ InitFactorizeConv2d

Next ==
    \/ FM_ResolveRank
    \/ FM_Bias
    \/ FM_CaseA
    \/ FM_CaseB
    \/ FM_SvdInit
    \/ FM_Ya
    \/ FM_Iter
    \/ FM_Finish
    \/ FC_ActivationsToMat
    \/ FC_Target
    \/ FC_CallMatrix
    \/ FC_Reshape

Spec == Init /\ [][Next]_vars

(* ------------- the weight reshapes applied one after the other --------- *)
KernelOffsets == 0..2

(* a kernel tensor whose entries are all different *)
Kernel(O, C, kh, kw, off) ==
    Tensor(<<O, C, kh, kw>>, Const([i \in 1..(O * C * kh * kw) |-> i + off]), "Wa")

InitRoundTrip ==
    /\ pc = "rt_start"
    /\ entry = "roundtrip"
    /\ \E O \in 1..MaxChan, C \in 1..MaxChan, kh \in 1..MaxKernel, kw \in 1..MaxKernel,
          off \in KernelOffsets :
          args = [NoConvArgs EXCEPT !.Wa = Kernel(O, C, kh, kw, off)]
    /\ margs = NoMatrixArgs
    /\ fm = NoLocals
    /\ fc = NoConvLocals
    /\ ret = LowRankSolution
    /\ err = ""
    /\ trace = <<>>
    /\ callerMem = MemOf({args.Wa})

(* lines 299-301: kernel_size = Wa.shape[2:]; Wa = _weights_conv2d_to_mat(Wa) *)
RT_WeightsToMat ==
    /\ pc = "rt_start"
    /\ fc' = [fc EXCEPT !.kernel_size = SubSeq(args.Wa.shape, 3, 4),
                        !.Wa = WeightsConv2dToMat(args.Wa)]
    /\ pc' = "rt_mat"
    /\ UNCHANGED <<entry, args, margs, fm, ret, err, trace, callerMem>>

(* line 332: _mat_to_weights_conv2d(Wa, kernel_size=kernel_size) *)
RT_MatToWeights ==
    /\ pc = "rt_mat"
    /\ ret' = [ret EXCEPT !.Wa = MatToWeightsConv2d(fc.Wa, fc.kernel_size)]
    /\ pc' = "rt_done"
    /\ UNCHANGED <<entry, args, margs, fm, fc, err, trace, callerMem>>

NextRoundTrip ==
    \/ RT_WeightsToMat
    \/ RT_MatToWeights

SpecRoundTrip == InitRoundTrip /\ [][NextRoundTrip]_vars

(* ============================ properties =============================== *)
(* factorize_matrix has returned a solution (to its caller or to factorize_conv2d) *)
MatrixReturned == (pc = "done" /\ entry = "matrix" /\ err = "") \/ pc = "fc_reshape"

(* a call of either function has returned a solution *)
SolutionReturned == MatrixReturned \/ (pc = "done" /\ entry = "conv2d" /\ err = "")

(* a direct call of factorize_matrix has ended *)
MatrixEnded == pc = "done" /\ entry = "matrix"

(* X is [N, D] and Y is [N, M] *)
ValidShapes == /\ Len(margs.X.shape) = 2
               /\ Len(margs.Y.shape) = 2
               /\ margs.X.shape[1] = margs.Y.shape[1]

(* the resolved rank selects degenerate case A *)
RankCoversWidth == fm.k >= margs.X.shape[2] \/ fm.k >= margs.Y.shape[2]

(* the least-squares fit of Y on X, and of Y minus the supplied bias on X *)
FitOfY == LstsqSolution(margs.X, margs.Y, "fit").val
FitOfYMinusBias ==
    IF IsNone(margs.bias) THEN FitOfY
    ELSE LstsqSolution(margs.X, Sub(margs.Y, margs.bias, "fit"), "fit").val

(* C1 (as stated): with resolved rank k >= D or k >= M a valid call returns  *)
(* rank = -1, no Wb, and Wa equal to the least-squares fit of Y on X, with   *)
(* or without a bias.                                                        *)
C1_FitOfY ==
    (ValidShapes /\ (MatrixEnded \/ MatrixReturned) /\ RankCoversWidth)
        => /\ err = ""
           /\ ret.rank = Sentinel
           /\ IsNone(ret.Wb)
           /\ ret.Wa.val = FitOfY

(* C1 (amended): with resolved rank k >= D or k >= M a valid call returns    *)
(* rank = -1, no Wb, and Wa equal to the least-squares fit on X of Y minus   *)
(* the supplied bias (of Y itself when no bias is supplied), also when Wb is *)
(* given and k >= the current factor rank.                                   *)
C1_FitOfYMinusBias ==
    (ValidShapes /\ (MatrixEnded \/ MatrixReturned) /\ RankCoversWidth)
        => /\ err = ""
           /\ ret.rank = Sentinel
           /\ IsNone(ret.Wb)
           /\ ret.Wa.val = FitOfYMinusBias
           /\ ret.Wa.shape = <<margs.X.shape[2], margs.Y.shape[2]>>

C1_Witness ==
    /\ MatrixReturned /\ ValidShapes /\ RankCoversWidth
    /\ ~IsNone(margs.bias) /\ ~IsNone(margs.Wb)
    /\ fm.k >= margs.Wa.shape[2]
    /\ fm.path = "A"
    /\ FitOfY # FitOfYMinusBias

(* C2 (as stated): a valid call with Wa and Wb both given and resolved rank  *)
(* k >= d returns the input Wa and Wb unchanged and rank = -1.               *)
C2_FactorsUnchanged ==
    (ValidShapes /\ MatrixReturned /\ ~IsNone(margs.Wb) /\ fm.k >= margs.Wa.shape[2])
        => /\ ret.Wa = margs.Wa
           /\ ret.Wb = margs.Wb
           /\ ret.rank = Sentinel

(* C2 (amended): a valid call with Wa and Wb both given and resolved rank k  *)
(* with d <= k < D and k < M returns the input Wa and Wb unchanged and       *)
(* rank = -1.                                                                *)
C2_FactorsUnchangedBelowWidth ==
    (/\ ValidShapes /\ (MatrixEnded \/ MatrixReturned)
     /\ ~IsNone(margs.Wb) /\ fm.k >= margs.Wa.shape[2] /\ ~RankCoversWidth)
        => /\ err = ""
           /\ ret.Wa = margs.Wa
           /\ ret.Wb = margs.Wb
           /\ ret.rank = Sentinel

C2_Witness ==
    /\ MatrixReturned /\ ValidShapes /\ ~IsNone(margs.Wb)
    /\ fm.k >= margs.Wa.shape[2] /\ ~RankCoversWidth
    /\ fm.path = "B"
    /\ ret.Wb = margs.Wb

(* C3 (as stated): every returned solution has Wb absent if its rank is the  *)
(* sentinel -1, and Wa and Wb both present if its rank is positive.          *)
C3_SentinelMeansNoWb ==
    SolutionReturned
        => /\ (ret.rank = Sentinel => IsNone(ret.Wb))
           /\ (ret.rank > 0 => ~IsNone(ret.Wa) /\ ~IsNone(ret.Wb))

(* C3 (amended): every returned solution with a positive rank has Wa and Wb  *)
(* both present; a solution returned by degenerate case A has rank -1 and no *)
(* Wb; a solution returned by degenerate case B has rank -1 and has a Wb     *)
(* exactly when the caller supplied one.                                     *)
C3_SolutionShape ==
    SolutionReturned
        => /\ (ret.rank > 0 => ~IsNone(ret.Wa) /\ ~IsNone(ret.Wb))
           /\ (fm.path = "A" => ret.rank = Sentinel /\ IsNone(ret.Wb))
           /\ (fm.path = "B" => ret.rank = Sentinel /\ (IsNone(ret.Wb) <=> IsNone(margs.Wb)))

C3_Witness ==
    /\ pc = "done" /\ entry = "conv2d" /\ err = ""
    /\ fm.path = "B"
    /\ ret.rank = Sentinel
    /\ ~IsNone(ret.Wb)

(* C4: a rank f < 1 resolves to k = floor(f * min(D, r)), r the number of    *)
(* columns of Wa; a rank >= 1 is used unchanged.                             *)
C4_FractionOfMin ==
    (pc = "fm_bias" /\ Len(margs.X.shape) >= 2)
        => fm.k = IF RankLt1(margs.rank)
                  THEN (margs.rank[1] * Min(margs.X.shape[2], margs.Wa.shape[2]))
                           \div margs.rank[2]
                  ELSE margs.rank[1]

(* C5: a call whose X and Y differ in their number of rows, or are not both  *)
(* two-dimensional, fails with the shape error before any computation.       *)
C5_ShapeErrorFirst ==
    (MatrixEnded /\ ~ValidShapes) => (err = "IndexError" /\ trace = <<>>)

(* an axis setting of a convolution other than 1 *)
NotAllOnes(x) == \E i \in 1..Len(x) : x[i] # 1

(* C6: a call of factorize_conv2d with a stride, dilation or groups other    *)
(* than 1 fails with NotImplementedError before any tensor transform, and    *)
(* the matrix engine is never invoked.                                       *)
C6_UnsupportedRejected ==
    (/\ entry = "conv2d" /\ pc # "fc_unfold"
     /\ (NotAllOnes(args.stride) \/ NotAllOnes(args.dilation) \/ args.groups # 1))
        => (pc = "done" /\ err = "NotImplementedError" /\ trace = <<>>)

(* the tensors the caller supplied to the call *)
CallerTensors ==
    IF entry = "matrix"
    THEN Supplied({margs.X, margs.Y, margs.Wa, margs.Wb, margs.bias})
    ELSE Supplied({args.inputs, args.Wa, args.Wb, args.biasA, args.biasB})

(* C7: the contents of every tensor the caller supplied are, during and      *)
(* after a call of factorize_matrix or factorize_conv2d, what they were      *)
(* before it, whether the call returns or fails.                             *)
C7_CallerTensorsUntouched ==
    \A t \in CallerTensors : callerMem[t.buf] = t.val

C7_Witness ==
    /\ pc = "done" /\ entry = "conv2d" /\ err = ""
    /\ ~IsNone(args.biasA)
    /\ fm.path = "iter" /\ fm.k >= 1 /\ fm.it >= 1
    /\ C7_CallerTensorsUntouched

(* entry (o, c, a, b), counted from 0, of a kernel tensor *)
KernelAt(w, o, c, a, b) ==
    w.val.data[((o * w.shape[2] + c) * w.shape[3] + a) * w.shape[4] + b + 1]

(* C8: the matrix of a kernel [O, C, kh, kw] has shape [C*kh*kw, O] with the *)
(* kernel's entry (o, c, a, b) at row (c*kh + a)*kw + b and column o, and    *)
(* the inverse reshape gives back the kernel, shape and values.              *)
C8_RoundTrip ==
    LET W == args.Wa
        O == W.shape[1]
        F == W.shape[2] * W.shape[3] * W.shape[4]
    IN  /\ pc \in {"rt_mat", "rt_done"} =>
              /\ fc.Wa.shape = <<F, O>>
              /\ \A o \in 0..(O - 1), c \in 0..(W.shape[2] - 1),
                    a \in 0..(W.shape[3] - 1), b \in 0..(W.shape[4] - 1) :
                    fc.Wa.val.data[((c * W.shape[3] + a) * W.shape[4] + b) * O + o + 1]
                        = KernelAt(W, o, c, a, b)
        /\ pc = "rt_done" =>
              /\ ret.Wa.shape = W.shape
              /\ \A o \in 0..(O - 1), c \in 0..(W.shape[2] - 1),
                    a \in 0..(W.shape[3] - 1), b \in 0..(W.shape[4] - 1) :
                    KernelAt(ret.Wa, o, c, a, b) = KernelAt(W, o, c, a, b)

C8_Witness ==
    /\ pc = "rt_done"
    /\ args.Wa.shape = <<2, 2, 1, 2>>
    /\ fc.Wa.val # args.Wa.val
    /\ ret.Wa.val = args.Wa.val

(* C9: a call of factorize_conv2d that returns with biasA or biasB supplied  *)
(* returns a solution with a bias, on every return path.                     *)
C9_BiasKept ==
    (/\ pc = "done" /\ entry = "conv2d" /\ err = ""
     /\ (~IsNone(args.biasA) \/ ~IsNone(args.biasB)))
        => ~IsNone(ret.bias)

(* C10: a solution of the iterative path has rank = k with                   *)
(* 1 <= k < min(D, M, columns of the input Wa), Wa of shape [D, k] and Wb of *)
(* shape [k, M].                                                             *)
C10_IterativeRank ==
    (MatrixReturned /\ fm.path = "iter")
        => /\ ret.rank = fm.k
           /\ 1 <= fm.k
           /\ fm.k < Min(Min(margs.X.shape[2], margs.Y.shape[2]), margs.Wa.shape[2])
           /\ ret.Wa.shape = <<margs.X.shape[2], fm.k>>
           /\ ret.Wb.shape = <<fm.k, margs.Y.shape[2]>>

====
